---------------------------- MODULE Spec2Model ----------------------------
(***************************************************************************)
(* Background audio scheduler of the StudyCompanion add-on                 *)
(* (src/audio_manager.py): the cycle calculator, the playlist selection    *)
(* policy, the position persistence and the playback engine with its       *)
(* background waiter threads and external player processes.                *)
(***************************************************************************)
EXTENDS Integers, Sequences, FiniteSets, TLC

VARIABLES
    today,              \* date.today(), as a proleptic Gregorian ordinal
    cfg,                \* the add-on configuration the user controls
    store,              \* persisted per-playlist records written by the engine
    alive,              \* afplay processes currently alive (process slots)
    ptrack,             \* what each process slot plays: [pid, idx]
    nativeProcess,      \* _native_process: a slot, or NoProc for None
    nativePlaying,      \* _native_playing
    currentPlaylistId,  \* _current_playlist_id
    currentTrackIndex,  \* _current_track_index
    playlists,          \* _playlists: playlist id -> number of resolved files
    playlistLoops,      \* _playlist_loops: playlist id -> loop flag (absent = FALSE)
    playbackQueue,      \* _playback_queue: sequence of <<playlist id, loops>>
    queueIndex,         \* _queue_index
    trackPaused,        \* _track_paused
    thr,                \* control state of the main thread (0) and the waiter threads
    h,                  \* history of the calls made, for stating the properties
    query               \* inputs and result of a get_cycle_info call

engineVars == <<alive, ptrack, nativeProcess, nativePlaying, currentPlaylistId,
                currentTrackIndex, playlists, playlistLoops, playbackQueue,
                queueIndex, trackPaused, thr>>
vars == <<today, cfg, store, engineVars, h, query>>

----------------------------------------------------------------------------
(* Dates: datetime.date as its ordinal, strptime("%Y-%m-%d") as a parser.   *)

YearRange == 2020..2030

IsLeap(y) == (y % 4 = 0 /\ y % 100 # 0) \/ y % 400 = 0

DaysInMonth(y, m) ==
    IF m = 2 THEN (IF IsLeap(y) THEN 29 ELSE 28)
    ELSE IF m \in {4, 6, 9, 11} THEN 30 ELSE 31

RECURSIVE DaysBeforeMonth(_, _)
DaysBeforeMonth(y, m) ==
    IF m <= 1 THEN 0 ELSE DaysBeforeMonth(y, m - 1) + DaysInMonth(y, m - 1)

DaysBeforeYear(y) ==
    (y - 1) * 365 + ((y - 1) \div 4) - ((y - 1) \div 100) + ((y - 1) \div 400)

\* date(y, m, d).toordinal()
Ordinal(y, m, d) == DaysBeforeYear(y) + DaysBeforeMonth(y, m) + d

\* for_date.year
YearOf(n) ==
    CHOOSE y \in YearRange : DaysBeforeYear(y) < n /\ n <= DaysBeforeYear(y + 1)

\* date(for_date.year, 1, 1)
ImplicitStart(n) == Ordinal(YearOf(n), 1, 1)

\* A start-date string is "" (kind "empty"), text that is no date at all
\* (kind "garbage"), or digits in the shape Y-M-D (kind "ymd") whose numbers
\* strptime still has to accept.
NoDate == -1

ParseStartDate(s) ==
    IF s.kind = "ymd" /\ s.y \in 1..9999 /\ s.m \in 1..12
       /\ s.d \in 1..DaysInMonth(s.y, s.m)
    THEN Ordinal(s.y, s.m, s.d)
    ELSE NoDate

----------------------------------------------------------------------------
(* Cycle calculator                                                         *)

DefaultStudyDays == 21
DefaultBreakDays == 5

\* int(cfg.get(key, default) or default)
IntOr(v, default) == IF v = 0 THEN default ELSE v

StudyDaysOf(c) == IntOr(c.study_days, DefaultStudyDays)
BreakDaysOf(c) == IntOr(c.break_days, DefaultBreakDays)
CycleLength(c) == StudyDaysOf(c) + BreakDaysOf(c)

\* CycleFrom with the break starting on the last study day
CycleFromBreakOneDayEarly(c, start, d, implicit) ==
    LET elapsed == d - start
        number  == (elapsed \div CycleLength(c)) + 1
        day     == (elapsed % CycleLength(c)) + 1
        brk     == day >= StudyDaysOf(c)
    IN  [cycle_day |-> day, is_break |-> brk,
         study_day |-> IF brk THEN 0 ELSE day,
         cycle_number |-> number,
         cycle_start |-> start + (number - 1) * CycleLength(c),
         cycle_end |-> start + (number - 1) * CycleLength(c) + CycleLength(c) - 1,
         no_cycle_configured |-> implicit, before_start |-> FALSE]

\* the dict returned when the date is counted from `start`
CycleFrom(c, start, d, implicit) ==
    LET elapsed == d - start
        number  == (elapsed \div CycleLength(c)) + 1
        day     == (elapsed % CycleLength(c)) + 1
        brk     == day > StudyDaysOf(c)
    IN  [cycle_day |-> day, is_break |-> brk,
         study_day |-> IF brk THEN 0 ELSE day,
         cycle_number |-> number,
         cycle_start |-> start + (number - 1) * CycleLength(c),
         cycle_end |-> start + (number - 1) * CycleLength(c) + CycleLength(c) - 1,
         no_cycle_configured |-> implicit, before_start |-> FALSE]

BeforeStart(c, start) ==
    [cycle_day |-> 0, is_break |-> TRUE, study_day |-> 0, cycle_number |-> 0,
     cycle_start |-> start, cycle_end |-> start + CycleLength(c) - 1,
     no_cycle_configured |-> FALSE, before_start |-> TRUE]

\* get_cycle_info without the fallback for a start date strptime rejects
get_cycle_info_no_fallback(c, d) ==
    IF c.start.kind = "empty" THEN CycleFrom(c, ImplicitStart(d), d, TRUE)
    ELSE IF d - ParseStartDate(c.start) < 0
         THEN BeforeStart(c, ParseStartDate(c.start))
    ELSE CycleFrom(c, ParseStartDate(c.start), d, FALSE)

get_cycle_info(c, d) ==
    IF c.start.kind = "empty" THEN CycleFrom(c, ImplicitStart(d), d, TRUE)
    ELSE IF ParseStartDate(c.start) = NoDate
         THEN CycleFrom(c, ImplicitStart(d), d, TRUE)
    ELSE IF d - ParseStartDate(c.start) < 0
         THEN BeforeStart(c, ParseStartDate(c.start))
    ELSE CycleFrom(c, ParseStartDate(c.start), d, FALSE)

----------------------------------------------------------------------------
(* Playlist selection policy                                                *)

\* get_playlists_for_day as the module docstring has it: no last day for
\* playlists 2 and 3
get_playlists_for_day_documented(day) ==
    IF day = 0 THEN <<>>
    ELSE IF day % 2 = 0 THEN << <<1, TRUE>> >>
    ELSE IF day % 4 = 1 THEN << <<2, FALSE>>, <<1, TRUE>> >>
    ELSE << <<3, FALSE>>, <<1, TRUE>> >>

get_playlists_for_day(day) ==
    IF day = 0 THEN <<>>
    ELSE IF day % 2 = 0 THEN << <<1, TRUE>> >>
    ELSE IF day % 4 = 1 /\ day <= 21 THEN << <<2, FALSE>>, <<1, TRUE>> >>
    ELSE IF day % 4 = 3 /\ day <= 19 THEN << <<3, FALSE>>, <<1, TRUE>> >>
    ELSE << <<1, TRUE>> >>

Clamp(lo, hi, v) == IF v < lo THEN lo ELSE IF v > hi THEN hi ELSE v

get_effective_day(c, d) ==
    IF c.override_enabled THEN Clamp(1, 31, IntOr(c.override_day, 1))
    ELSE IF get_cycle_info(c, d).is_break THEN 0
    ELSE get_cycle_info(c, d).study_day

----------------------------------------------------------------------------
(* Track source resolver: file names are strings, kept as the sequence of   *)
(* the code points of their characters.                                     *)

\* code points of the characters the file names are written with
Ord ==
    ("." :> 46 @@ "0" :> 48 @@ "1" :> 49 @@ "2" :> 50 @@ "3" :> 51 @@
     "4" :> 52 @@ "9" :> 57 @@ "A" :> 65 @@ "C" :> 67 @@ "K" :> 75 @@ "M" :> 77 @@
     "P" :> 80 @@ "R" :> 82 @@ "T" :> 84 @@ "a" :> 97 @@ "c" :> 99 @@
     "f" :> 102 @@ "g" :> 103 @@ "k" :> 107 @@ "l" :> 108 @@ "m" :> 109 @@
     "o" :> 111 @@ "p" :> 112 @@ "r" :> 114 @@ "t" :> 116 @@ "v" :> 118 @@
     "w" :> 119 @@ "x" :> 120)

\* the string written with the characters cs
Str(cs) == [i \in DOMAIN cs |-> Ord[cs[i]]]

IsDigit(ch) == ch \in 48..57

\* str.lower()
LowerChar(ch) == IF ch \in 65..90 THEN ch + 32 ELSE ch
Lower(s) == [i \in DOMAIN s |-> LowerChar(s[i])]

\* int(p) of a run of digits
RECURSIVE IntOf(_)
IntOf(s) ==
    IF s = <<>> THEN 0
    ELSE 10 * IntOf(SubSeq(s, 1, Len(s) - 1)) + (s[Len(s)] - 48)

\* length of the longest prefix of s whose characters are all digits
\* (digits = TRUE) or all non-digits (digits = FALSE)
RunLength(s, digits) ==
    LET stops == {i \in DOMAIN s : IsDigit(s[i]) # digits}
    IN  IF stops = {} THEN Len(s)
        ELSE (CHOOSE i \in stops : \A j \in stops : i <= j) - 1

\* re.split(r"(\d+)", text): text run, digit run, text run, ..., text run
RECURSIVE SplitDigits(_)
SplitDigits(s) ==
    LET n    == RunLength(s, FALSE)
        rest == SubSeq(s, n + 1, Len(s))
        m    == RunLength(rest, TRUE)
    IN  IF rest = <<>> THEN << SubSeq(s, 1, n) >>
        ELSE << SubSeq(s, 1, n), SubSeq(rest, 1, m) >>
                 \o SplitDigits(SubSeq(rest, m + 1, Len(rest)))

\* p.isdigit() of a part of the split
IsDigitRun(p) == p # <<>> /\ \A i \in DOMAIN p : IsDigit(p[i])

\* the key with every part kept as lower-case text
_natural_key_as_text(text) ==
    LET parts == SplitDigits(text)
    IN  [i \in DOMAIN parts |-> [int |-> FALSE, n |-> 0, s |-> Lower(parts[i])]]

\* _natural_key(text): digit runs as integers, the other runs in lower case
_natural_key(text) ==
    LET parts == SplitDigits(text)
    IN  [i \in DOMAIN parts |->
            IF IsDigitRun(parts[i])
            THEN [int |-> TRUE, n |-> IntOf(parts[i]), s |-> <<>>]
            ELSE [int |-> FALSE, n |-> 0, s |-> Lower(parts[i])]]

\* the first place where two sequences differ, 0 when one is a prefix of
\* the other
FirstDifference(a, b) ==
    LET diff == {i \in DOMAIN a \cap DOMAIN b : a[i] # b[i]}
    IN  IF diff = {} THEN 0 ELSE CHOOSE k \in diff : \A j \in diff : k <= j

\* a < b of two strings: by code point at the first place where they
\* differ, a proper prefix being the smaller
StrLess(a, b) ==
    LET i == FirstDifference(a, b)
    IN  IF i = 0 THEN Len(a) < Len(b) ELSE a[i] < b[i]

\* a < b of two parts of a key.  Parts at the same place of two keys are
\* both integers or both text, since the split alternates from a text run.
PartLess(a, b) == IF a.int /\ b.int THEN a.n < b.n ELSE StrLess(a.s, b.s)

\* a < b of two keys (lists): by the parts at the first place where they
\* differ, a proper prefix being the smaller
KeyLess(a, b) ==
    LET i == FirstDifference(a, b)
    IN  IF i = 0 THEN Len(a) < Len(b) ELSE PartLess(a[i], b[i])

\* os.path.join(folder, f) and os.path.basename of it
Join(folder, f) == <<folder, f>>
Basename(p) == p[2]

\* os.path.splitext(f)[1]: from the last dot on, unless only dots precede it
SplitExt(f) ==
    LET dots == {i \in DOMAIN f : f[i] = 46}
    IN  IF dots = {} THEN <<>>
        ELSE LET d == CHOOSE i \in dots : \A j \in dots : j <= i
             IN  IF \E k \in 1..(d - 1) : f[k] # 46
                 THEN SubSeq(f, d, Len(f)) ELSE <<>>

SUPPORTED_AUDIO_EXTS ==
    {Str(<<".", "m", "p", "3">>), Str(<<".", "w", "a", "v">>),
     Str(<<".", "o", "g", "g">>), Str(<<".", "m", "4", "a">>),
     Str(<<".", "f", "l", "a", "c">>), Str(<<".", "a", "a", "c">>)}

HasAudioExt(f) == Lower(SplitExt(f)) \in SUPPORTED_AUDIO_EXTS

\* list.sort(key = ...): stable, so an element goes behind the elements of
\* smaller key and before the later elements of equal key
RECURSIVE SortByKey(_)
SortByKey(files) ==
    IF files = <<>> THEN <<>>
    ELSE LET x    == Head(files)
             rest == SortByKey(Tail(files))
             k    == Cardinality({i \in DOMAIN rest :
                        KeyLess(_natural_key(Basename(rest[i])),
                                _natural_key(Basename(x)))})
         IN  SubSeq(rest, 1, k) \o <<x>> \o SubSeq(rest, k + 1, Len(rest))

\* a source path as the file system shows it: blank, a folder with the
\* entries os.listdir returns (or raises on), a file, or nothing at all
NoSource == [kind |-> "blank", path |-> "", name |-> <<>>, entries |-> <<>>,
             listable |-> FALSE]

\* _folder_audio_files(folder)
_folder_audio_files(src) ==
    IF ~src.listable THEN <<>>
    ELSE SortByKey([i \in DOMAIN SelectSeq(src.entries, HasAudioExt) |->
                       Join(src.path, SelectSeq(src.entries, HasAudioExt)[i])])

\* _expand_source(path)
_expand_source(src) ==
    IF src.kind = "blank" THEN <<>>
    ELSE IF src.kind = "dir" THEN _folder_audio_files(src)
    ELSE IF src.kind = "file" /\ HasAudioExt(src.name)
         THEN << Join(src.path, src.name) >>
    ELSE <<>>

----------------------------------------------------------------------------
(* Playback engine: state                                                   *)

PIDs == 1..3

\* number of process slots: a slot is reused once its process is dead and
\* its waiter thread has returned
MaxProcs == 2
Slots == 1..MaxProcs
NoProc == 0
Main == 0
Threads == 0..MaxProcs

NoTrack == [pid |-> 0, idx |-> 0]

\* the stored config keys the engine writes: audio_track_position_<p>,
\* audio_time_position_<p> and audio_playlist_<p>_completed_date.  The engine
\* writes no time position but 0, so the branch of _start_playlist that
\* clears a positive one is never taken.
FreshStore ==
    [pos |-> [p \in PIDs |-> 0], time |-> [p \in PIDs |-> 0],
     done |-> [p \in PIDs |-> NoDate]]

\* a thread that is not running engine code (the main thread between two
\* calls; a waiter slot without a thread)
Rest ==
    [pc |-> "idle", op |-> "none", a |-> 0, i |-> 0, lp |-> FALSE,
     ret |-> "none", snap |-> FreshStore, tk |-> NoTrack]

At(op, pc) == [Rest EXCEPT !.pc = pc, !.op = op]

NoTracks == [s \in Slots |-> NoTrack]

Tracks(p) == playlists[p]
Loops(p) == playlistLoops[p]

FreeSlots == {s \in Slots : s \notin alive /\ thr[s].pc = "idle"}

\* the slot the next Popen gets
NextSlot == CHOOSE s \in FreeSlots : \A u \in FreeSlots : s <= u

----------------------------------------------------------------------------
(* History of the calls the host made, kept beside the program state        *)

\* number of calls the host makes in a behaviour
MaxCalls == 3

HInit ==
    [calls |-> 0, last |-> "none", at |-> NoTrack, brk |-> FALSE,
     quiet |-> FALSE, marked |-> {}, skipd |-> {}, looped |-> FALSE,
     spawned |-> NoTrack]

CurrentTrack == [pid |-> currentPlaylistId, idx |-> currentTrackIndex]

\* one process is alive, it is the tracked one and plays the current track,
\* its waiter blocks in wait() and no other waiter thread exists
Quiet ==
    /\ nativeProcess \in alive
    /\ alive = {nativeProcess}
    /\ ptrack[nativeProcess] = CurrentTrack
    /\ \A s \in Slots :
          thr[s].pc = (IF s = nativeProcess THEN "w_wait" ELSE "idle")

\* the history after the host calls `op`
HCall(op) ==
    [calls |-> h.calls + 1,
     last |-> IF op = "resume" /\ h.last = "pause" THEN "resume_p"
              ELSE IF op = "setup" /\ h.last = "restart_q" THEN "setup_q"
              ELSE op,
     at |-> IF op \in {"pause", "skip_track"} THEN CurrentTrack
            ELSE IF op = "quit" /\ currentPlaylistId > 0
                    /\ (nativePlaying \/ trackPaused) THEN CurrentTrack
            ELSE IF op = "resume" /\ h.last = "pause" THEN h.at
            ELSE IF op = "setup" /\ h.last = "restart_q" THEN h.at
            ELSE NoTrack,
     brk |-> IF op = "setup" THEN get_cycle_info(cfg, today).is_break
             ELSE h.brk,
     quiet |-> IF op = "resume" /\ h.last = "pause" THEN h.quiet
               ELSE IF op = "setup" /\ h.last = "restart_q" THEN h.quiet
               ELSE Quiet,
     marked |-> h.marked,
     skipd |-> IF op = "setup" THEN h.marked ELSE h.skipd,
     looped |-> IF op = "setup" THEN FALSE ELSE h.looped,
     spawned |-> IF op = "setup" THEN NoTrack ELSE h.spawned]

----------------------------------------------------------------------------
(* Steps of a thread.  A step is one blocking call (a subprocess, a file    *)
(* read or write, a wait) together with the code that follows it up to the  *)
(* next blocking call.                                                      *)

\* _stop_current_process: terminate the tracked process, then pkill afplay
StopCurrentProcess ==
    /\ alive' = {}
    /\ ptrack' = NoTracks
    /\ nativeProcess' = NoProc

Goto(t, rec) == thr' = [thr EXCEPT ![t] = rec]

Return(t) == thr' = [thr EXCEPT ![t] = Rest]

\* _advance_to_next_playlist from "_queue_index += 1" on
AdvanceQueue(t, pid, playing) ==
    /\ queueIndex' = queueIndex + 1
    /\ IF queueIndex + 1 >= Len(playbackQueue)
       THEN /\ nativePlaying' = FALSE
            /\ currentPlaylistId' = 0
            /\ Return(t)
       ELSE /\ nativePlaying' = playing
            /\ currentPlaylistId' = pid
            /\ Goto(t, [At(thr[t].op, "sp") EXCEPT
                        !.a = playbackQueue[queueIndex + 2][1],
                        !.lp = playbackQueue[queueIndex + 2][2]])

\* _advance_to_next_playlist without the mark of the finished playlist
AdvanceUnmarked(t, pid, loops, playing) == AdvanceQueue(t, pid, playing)

\* _advance_to_next_playlist: a non-looping current playlist is marked
\* completed first
Advance(t, pid, loops, playing) ==
    IF pid > 0 /\ ~loops
    THEN /\ queueIndex' = queueIndex
         /\ nativePlaying' = playing
         /\ currentPlaylistId' = pid
         /\ Goto(t, [At(thr[t].op, "mark_rd") EXCEPT !.a = pid, !.ret = "adv"])
    ELSE AdvanceQueue(t, pid, playing)

\* the tracks whose file was removed after setup_audio_player listed it
Missing(c) == IF "missing" \in DOMAIN c THEN c.missing ELSE {}

\* os.path.exists(path) of a track's file
FileExists(c, tk) == tk \notin Missing(c)

\* _native_play_current_track up to the Popen, or up to the save of the
\* index that skips a missing file
NativePlay(t) ==
    /\ thr[t].pc = "np"
    /\ StopCurrentProcess
    /\ IF currentPlaylistId = 0
       THEN /\ nativePlaying' = FALSE
            /\ Return(t)
            /\ UNCHANGED <<currentPlaylistId, currentTrackIndex, queueIndex>>
       ELSE IF currentTrackIndex >= Tracks(currentPlaylistId)
       THEN /\ Advance(t, currentPlaylistId, Loops(currentPlaylistId),
                       nativePlaying)
            /\ UNCHANGED currentTrackIndex
       ELSE IF ~FileExists(cfg, CurrentTrack)
       THEN /\ currentTrackIndex' = currentTrackIndex + 1
            /\ Goto(t, [At(thr[t].op, "save_rd") EXCEPT
                        !.a = currentPlaylistId, !.i = currentTrackIndex + 1,
                        !.ret = "np"])
            /\ UNCHANGED <<nativePlaying, currentPlaylistId, queueIndex>>
       ELSE /\ Goto(t, [At(thr[t].op, "spawn") EXCEPT !.tk = CurrentTrack])
            /\ UNCHANGED <<nativePlaying, currentPlaylistId,
                           currentTrackIndex, queueIndex>>
    /\ UNCHANGED <<today, cfg, store, playlists, playlistLoops, playbackQueue,
                   trackPaused, h, query>>

\* the Popen of afplay and the start of its waiter thread, which blocks in
\* wait() on the process just started
Spawn(t) ==
    /\ thr[t].pc = "spawn"
    /\ FreeSlots # {}
    /\ trackPaused' = FALSE
    /\ alive' = alive \cup {NextSlot}
    /\ ptrack' = [ptrack EXCEPT ![NextSlot] = thr[t].tk]
    /\ nativeProcess' = NextSlot
    /\ nativePlaying' = TRUE
    /\ thr' = [thr EXCEPT ![t] = Rest, ![NextSlot] = At("waiter", "w_wait")]
    /\ h' = [h EXCEPT !.looped = @ \/ Loops(thr[t].tk.pid),
                      !.spawned = thr[t].tk]
    /\ UNCHANGED <<today, cfg, store, currentPlaylistId, currentTrackIndex,
                   playlists, playlistLoops, playbackQueue, queueIndex, query>>

\* _wait_and_next: wait() returns, the flag is tested, the index moves on
WaiterWake(t) ==
    /\ thr[t].pc = "w_wait"
    /\ t \notin alive
    /\ IF ~nativePlaying
       THEN /\ Return(t)
            /\ UNCHANGED currentTrackIndex
       ELSE /\ currentTrackIndex' = currentTrackIndex + 1
            /\ Goto(t, [At("waiter", "save_rd") EXCEPT
                        !.a = currentPlaylistId, !.i = currentTrackIndex + 1,
                        !.ret = "waiter"])
    /\ UNCHANGED <<today, cfg, store, alive, ptrack, nativeProcess,
                   nativePlaying, currentPlaylistId, playlists, playlistLoops,
                   playbackQueue, queueIndex, trackPaused, h, query>>

\* _save_track_position / _mark_playlist_completed_today: cfg = get_config()
ConfigRead(t) ==
    /\ thr[t].pc \in {"save_rd", "mark_rd"}
    /\ Goto(t, [thr[t] EXCEPT
                !.pc = IF @ = "save_rd" THEN "save_wr" ELSE "mark_wr",
                !.snap = store])
    /\ UNCHANGED <<today, cfg, store, alive, ptrack, nativeProcess,
                   nativePlaying, currentPlaylistId, currentTrackIndex,
                   playlists, playlistLoops, playbackQueue, queueIndex,
                   trackPaused, h, query>>

\* a save that leaves the stored position as it was read
SavedConfigUnchanged(snap, p, i) == snap

\* the dict _save_track_position hands to write_config
SavedConfig(snap, p, i) ==
    IF p \in PIDs THEN [snap EXCEPT !.pos[p] = i, !.time[p] = 0] ELSE snap

\* the dict _mark_playlist_completed_today hands to write_config
MarkedConfig(snap, p, d) ==
    IF p \in PIDs THEN [snap EXCEPT !.pos[p] = 0, !.time[p] = 0, !.done[p] = d]
    ELSE snap

\* write_config(new): {**old, **new}; a key of new replaces the stored one, a
\* key new does not hold (a completed date never written before the
\* get_config that made new) keeps the stored value
WriteConfig(old, new) ==
    [pos |-> new.pos,
     time |-> new.time,
     done |-> [p \in PIDs |-> IF new.done[p] = NoDate THEN old.done[p]
                              ELSE new.done[p]]]

\* the writes the add-on manager refuses: "save" of a track position, "mark"
\* of a completed date
Failing(c) == IF "failing" \in DOMAIN c THEN c.failing ELSE {}

\* a refused write whose exception leaves the function that writes
WriteResultRaised(c, kind) == IF kind \in Failing(c) THEN "raised" ELSE "ok"

\* what _save_track_position and _mark_playlist_completed_today make of a
\* write: write_config and their own try/except keep the exception of a
\* refused write
WriteResult(c, kind) == IF kind \in Failing(c) THEN "failed" ELSE "ok"

\* an exception in the thread: the handler of _wait_and_next clears the flag
\* and the thread ends; a host call ends with the exception
Raised(t) ==
    /\ nativePlaying' = (IF thr[t].op = "waiter" THEN FALSE ELSE nativePlaying)
    /\ Return(t)
    /\ UNCHANGED <<currentTrackIndex, queueIndex, currentPlaylistId>>

\* write_config(cfg) in _save_track_position; then the caller goes on
SaveWrite(t) ==
    /\ thr[t].pc = "save_wr"
    /\ store' = IF WriteResult(cfg, "save") = "ok"
                THEN WriteConfig(store, SavedConfig(thr[t].snap, thr[t].a,
                                                    thr[t].i))
                ELSE store
    /\ IF WriteResult(cfg, "save") = "raised"
       THEN Raised(t)
       ELSE IF thr[t].ret = "waiter"
       THEN IF currentTrackIndex >= Tracks(currentPlaylistId)
            THEN IF Loops(currentPlaylistId)
                 THEN /\ currentTrackIndex' = 0
                      /\ Goto(t, [At(thr[t].op, "save_rd") EXCEPT
                            !.a = currentPlaylistId, !.i = 0, !.ret = "np"])
                      /\ UNCHANGED <<queueIndex, nativePlaying,
                                     currentPlaylistId>>
                 ELSE /\ Advance(t, currentPlaylistId, FALSE, nativePlaying)
                      /\ UNCHANGED currentTrackIndex
            ELSE /\ Goto(t, At(thr[t].op, "np"))
                 /\ UNCHANGED <<currentTrackIndex, queueIndex, nativePlaying,
                                currentPlaylistId>>
       ELSE /\ Goto(t, At(thr[t].op, thr[t].ret))
            /\ UNCHANGED <<currentTrackIndex, queueIndex, nativePlaying,
                           currentPlaylistId>>
    /\ UNCHANGED <<today, cfg, alive, ptrack, nativeProcess, playlists,
                   playlistLoops, playbackQueue, trackPaused, h, query>>

\* write_config(cfg) in _mark_playlist_completed_today; then the caller
\* goes on
MarkWrite(t) ==
    /\ thr[t].pc = "mark_wr"
    /\ store' = IF WriteResult(cfg, "mark") = "ok"
                THEN WriteConfig(store, MarkedConfig(thr[t].snap, thr[t].a,
                                                     today))
                ELSE store
    /\ h' = [h EXCEPT !.marked = @ \cup {thr[t].a}]
    /\ IF WriteResult(cfg, "mark") = "raised"
       THEN Raised(t)
       ELSE IF thr[t].ret = "adv"
       THEN AdvanceQueue(t, currentPlaylistId, nativePlaying)
       ELSE Advance(t, currentPlaylistId, Loops(currentPlaylistId), nativePlaying)
    /\ UNCHANGED <<today, cfg, alive, ptrack, nativeProcess,
                   currentTrackIndex, playlists, playlistLoops, playbackQueue,
                   trackPaused, query>>

\* a test that finds no playlist completed
IsCompletedNever(c, p) == FALSE

\* _is_playlist_completed_today
IsCompletedToday(c, p) == c.done[p] = today

\* _get_track_position
GetTrackPosition(c, p) == c.pos[p]

\* where _start_playlist starts a playlist whose tracks it plays
ResumeIndex(saved, n) == IF saved >= n THEN 0 ELSE saved

\* _start_playlist(a, lp)
StartPlaylist(t) ==
    LET p == thr[t].a
        loops == thr[t].lp
        saved == GetTrackPosition(store, p)
    IN
    /\ thr[t].pc = "sp"
    /\ StopCurrentProcess
    /\ IF Tracks(p) = 0
       THEN /\ Advance(t, currentPlaylistId, Loops(currentPlaylistId),
                       nativePlaying)
            /\ UNCHANGED <<currentTrackIndex, playlistLoops, trackPaused>>
       ELSE IF ~loops /\ IsCompletedToday(store, p)
       THEN /\ IF queueIndex + 1 < Len(playbackQueue)
               THEN /\ queueIndex' = queueIndex + 1
                    /\ Goto(t, [At(thr[t].op, "sp") EXCEPT
                            !.a = playbackQueue[queueIndex + 2][1],
                            !.lp = playbackQueue[queueIndex + 2][2]])
                    /\ UNCHANGED <<nativePlaying, currentPlaylistId>>
               ELSE /\ nativePlaying' = FALSE
                    /\ currentPlaylistId' = 0
                    /\ Return(t)
                    /\ UNCHANGED queueIndex
            /\ UNCHANGED <<currentTrackIndex, playlistLoops, trackPaused>>
       ELSE /\ currentPlaylistId' = p
            /\ playlistLoops' = [playlistLoops EXCEPT ![p] = loops]
            /\ IF saved >= Tracks(p) /\ ~loops
               THEN /\ Goto(t, [At(thr[t].op, "mark_rd") EXCEPT
                            !.a = p, !.ret = "sp_end"])
                    /\ UNCHANGED <<nativePlaying, currentTrackIndex,
                                   queueIndex, trackPaused>>
               ELSE /\ currentTrackIndex' = ResumeIndex(saved, Tracks(p))
                    /\ trackPaused' = FALSE
                    /\ nativePlaying' = TRUE
                    /\ Goto(t, At(thr[t].op, "np"))
                    /\ UNCHANGED queueIndex
    /\ UNCHANGED <<today, cfg, store, playlists, playbackQueue, h, query>>

\* cleanup_audio_on_quit after the save: _native_stop
NativeStopStep(t) ==
    /\ thr[t].pc = "ns"
    /\ nativePlaying' = FALSE
    /\ StopCurrentProcess
    /\ Return(t)
    /\ UNCHANGED <<today, cfg, store, currentPlaylistId, currentTrackIndex,
                   playlists, playlistLoops, playbackQueue, queueIndex,
                   trackPaused, h, query>>

----------------------------------------------------------------------------
(* Calls the host makes on its GUI thread, one at a time                    *)

MainIdle == thr[Main].pc = "idle" /\ h.calls < MaxCalls

\* the number of files _expand_source gives for the configured path of
\* playlist p: of the source itself where the configuration describes it
ExpandSource(c, p) ==
    IF "source" \in DOMAIN c THEN Len(_expand_source(c.source[p]))
    ELSE c.ntracks[p]

LoadedPlaylists(c) == [p \in 0..3 |-> IF p = 0 THEN 0 ELSE ExpandSource(c, p)]

\* the queue with every playlist of the day, usable or not
BuildQueueOfAll(c, d, lists) == get_playlists_for_day(get_effective_day(c, d))

\* the queue setup_audio_player builds
BuildQueue(c, d, lists) ==
    SelectSeq(get_playlists_for_day(get_effective_day(c, d)),
              LAMBDA e : c.enabled[e[1]] /\ lists[e[1]] > 0)

setup_audio_player ==
    /\ MainIdle
    /\ nativePlaying' = FALSE
    /\ StopCurrentProcess
    /\ playlists' = LoadedPlaylists(cfg)
    /\ h' = HCall("setup")
    /\ IF get_cycle_info(cfg, today).is_break
       THEN UNCHANGED <<playbackQueue, queueIndex, thr>>
       ELSE /\ playbackQueue' = BuildQueue(cfg, today, playlists')
            /\ IF playbackQueue' = <<>>
               THEN UNCHANGED <<queueIndex, thr>>
               ELSE /\ queueIndex' = 0
                    /\ Goto(Main, [At("setup", "sp") EXCEPT
                                    !.a = playbackQueue'[1][1],
                                    !.lp = playbackQueue'[1][2]])
    /\ UNCHANGED <<today, cfg, store, currentPlaylistId, currentTrackIndex,
                   playlistLoops, trackPaused, query>>

stop_audio ==
    /\ MainIdle
    /\ nativePlaying' = FALSE
    /\ StopCurrentProcess
    /\ h' = HCall("stop")
    /\ UNCHANGED <<today, cfg, store, currentPlaylistId, currentTrackIndex,
                   playlists, playlistLoops, playbackQueue, queueIndex,
                   trackPaused, thr, query>>

cleanup_audio_on_quit ==
    /\ MainIdle
    /\ h' = HCall("quit")
    /\ IF currentPlaylistId > 0 /\ (nativePlaying \/ trackPaused)
       THEN /\ Goto(Main, [At("quit", "save_rd") EXCEPT
                        !.a = currentPlaylistId, !.i = currentTrackIndex,
                        !.ret = "ns"])
            /\ UNCHANGED <<alive, ptrack, nativeProcess, nativePlaying>>
       ELSE /\ nativePlaying' = FALSE
            /\ StopCurrentProcess
            /\ UNCHANGED thr
    /\ UNCHANGED <<today, cfg, store, currentPlaylistId, currentTrackIndex,
                   playlists, playlistLoops, playbackQueue, queueIndex,
                   trackPaused, query>>

\* terminate the tracked process only (pause_audio, seek_to_position)
KillTracked ==
    /\ alive' = alive \ {nativeProcess}
    /\ ptrack' = [s \in Slots |-> IF s = nativeProcess THEN NoTrack ELSE ptrack[s]]
    /\ nativeProcess' = NoProc

CanPause == nativePlaying /\ ~trackPaused

Pause ==
    /\ trackPaused' = TRUE
    /\ KillTracked
    /\ h' = HCall("pause")
    /\ UNCHANGED <<today, cfg, store, nativePlaying, currentPlaylistId,
                   currentTrackIndex, playlists, playlistLoops, playbackQueue,
                   queueIndex, thr, query>>

pause_audio == MainIdle /\ CanPause /\ Pause

\* seek_to_position gets past its early returns
CanSeek ==
    /\ currentPlaylistId # 0
    /\ currentTrackIndex < Tracks(currentPlaylistId)

\* resume_audio gets past its early returns
CanResume == CanSeek /\ FileExists(cfg, CurrentTrack)

Resume(op) ==
    /\ StopCurrentProcess
    /\ trackPaused' = FALSE
    /\ nativePlaying' = TRUE
    /\ Goto(Main, At("resume", "np"))
    /\ h' = HCall(op)
    /\ UNCHANGED <<today, cfg, store, currentPlaylistId, currentTrackIndex,
                   playlists, playlistLoops, playbackQueue, queueIndex, query>>

resume_audio == MainIdle /\ trackPaused /\ CanResume /\ Resume("resume")

toggle_pause ==
    /\ MainIdle
    /\ IF trackPaused THEN CanResume /\ Resume("resume") ELSE CanPause /\ Pause

seek_to_position ==
    /\ MainIdle
    /\ CanSeek
    /\ IF nativePlaying /\ ~trackPaused /\ CanResume
       THEN Resume("seek")
       ELSE /\ trackPaused' = TRUE
            /\ KillTracked
            /\ h' = HCall("seek")
            /\ UNCHANGED <<today, cfg, store, nativePlaying, currentPlaylistId,
                           currentTrackIndex, playlists, playlistLoops,
                           playbackQueue, queueIndex, thr, query>>

\* a skip that stays on the track
SkipIndexSame(i, n, loops) == i

\* the index skip_to_next_track moves to
SkipIndex(i, n, loops) == IF i + 1 >= n /\ loops THEN 0 ELSE i + 1

skip_to_next_track ==
    LET n == Tracks(currentPlaylistId)
        loops == Loops(currentPlaylistId)
    IN
    /\ MainIdle
    /\ nativePlaying /\ currentPlaylistId # 0
    /\ StopCurrentProcess
    /\ h' = HCall("skip_track")
    /\ currentTrackIndex' = SkipIndex(currentTrackIndex, n, loops)
    /\ IF currentTrackIndex + 1 >= n /\ ~loops
       THEN Advance(Main, currentPlaylistId, loops, FALSE)
       ELSE /\ nativePlaying' = FALSE
            /\ Goto(Main, [At("skip_track", "save_rd") EXCEPT
                        !.a = currentPlaylistId, !.i = currentTrackIndex',
                        !.ret = "np"])
            /\ UNCHANGED <<currentPlaylistId, queueIndex>>
    /\ UNCHANGED <<today, cfg, store, playlists, playlistLoops, playbackQueue,
                   trackPaused, query>>

skip_to_next_playlist ==
    /\ MainIdle
    /\ nativePlaying
    /\ StopCurrentProcess
    /\ h' = HCall("skip_playlist")
    /\ Advance(Main, currentPlaylistId, Loops(currentPlaylistId), FALSE)
    /\ UNCHANGED <<today, cfg, store, currentTrackIndex, playlists,
                   playlistLoops, playbackQueue, trackPaused, query>>

----------------------------------------------------------------------------
(* Environment: the player processes, the calendar, the host process        *)

\* a track plays to its end and afplay exits
TrackEnds(s) ==
    /\ s \in alive
    /\ alive' = alive \ {s}
    /\ ptrack' = [ptrack EXCEPT ![s] = NoTrack]
    /\ UNCHANGED <<today, cfg, store, nativeProcess, nativePlaying,
                   currentPlaylistId, currentTrackIndex, playlists,
                   playlistLoops, playbackQueue, queueIndex, trackPaused, thr,
                   h, query>>

\* number of midnights a behaviour passes
MaxDays == 1

FirstDay == Ordinal(2024, 1, 1)

Midnight ==
    /\ today < FirstDay + MaxDays
    /\ today' = today + 1
    /\ h' = [h EXCEPT !.marked = {}, !.skipd = {}]
    /\ UNCHANGED <<cfg, store, engineVars, query>>

\* the module's globals as the import leaves them
EngineInit ==
    /\ alive = {}
    /\ ptrack = NoTracks
    /\ nativeProcess = NoProc
    /\ nativePlaying = FALSE
    /\ currentPlaylistId = 0
    /\ currentTrackIndex = 0
    /\ playlists = [p \in 0..3 |-> 0]
    /\ playlistLoops = [p \in 0..3 |-> FALSE]
    /\ playbackQueue = <<>>
    /\ queueIndex = 0
    /\ trackPaused = FALSE
    /\ thr = [t \in Threads |-> Rest]

\* the host exits (the daemon waiter threads die with it, the atexit hook
\* kills every afplay) and is started again: the module is imported anew
HostRestart ==
    /\ thr[Main].pc = "idle"
    /\ alive' = {}
    /\ ptrack' = NoTracks
    /\ nativeProcess' = NoProc
    /\ nativePlaying' = FALSE
    /\ currentPlaylistId' = 0
    /\ currentTrackIndex' = 0
    /\ playlists' = [p \in 0..3 |-> 0]
    /\ playlistLoops' = [p \in 0..3 |-> FALSE]
    /\ playbackQueue' = <<>>
    /\ queueIndex' = 0
    /\ trackPaused' = FALSE
    /\ thr' = [t \in Threads |-> Rest]
    /\ h' = [calls |-> h.calls,
             last |-> IF h.last = "quit" THEN "restart_q" ELSE "none",
             at |-> IF h.last = "quit" THEN h.at ELSE NoTrack,
             brk |-> FALSE,
             quiet |-> IF h.last = "quit" THEN h.quiet ELSE FALSE,
             marked |-> h.marked, skipd |-> {}, looped |-> FALSE,
             spawned |-> NoTrack]
    /\ UNCHANGED <<today, cfg, store, query>>

----------------------------------------------------------------------------
(* The engine under a configuration                                         *)

StartOn(y, m, d) == [kind |-> "ymd", y |-> y, m |-> m, d |-> d]

NoInfo ==
    [cycle_day |-> 0, is_break |-> FALSE, study_day |-> 0, cycle_number |-> 0,
     cycle_start |-> 0, cycle_end |-> 0, no_cycle_configured |-> FALSE,
     before_start |-> FALSE]

\* day is -1 unless the playlists of a day were asked for; src and files are
\* the argument and the result of an _expand_source call
\* _audio_volume before setup_audio_player has run
DefaultVolume == 50

\* no player was started yet
NoVolume == 0 - 1

NoQuery ==
    [asked |-> FALSE, date |-> 0, info |-> NoInfo, day |-> 0 - 1, lists |-> <<>>,
     src |-> NoSource, files |-> <<>>, volume |-> DefaultVolume,
     vol |-> NoVolume]

\* cycles of one study day and one break day.  Counted from 2023-12-30,
\* study day 1 falls on that day and on FirstDay and the days after them are
\* break days; counted from the day after FirstDay, FirstDay precedes the
\* start
EngineConfigs ==
    {[start |-> st, study_days |-> 1, break_days |-> 1,
      override_enabled |-> FALSE, override_day |-> 1,
      enabled |-> [p \in PIDs |-> TRUE],
      ntracks |-> (1 :> 1 @@ 2 :> 2 @@ 3 :> 1)] :
     st \in {StartOn(2023, 12, 30), StartOn(2024, 1, 2)}}

\* what earlier sessions left in the store: nothing, or playlist 2 completed
\* on the study day before FirstDay
Stores == {FreshStore, [FreshStore EXCEPT !.done[2] = FirstDay - 2]}

Init ==
    /\ today = FirstDay
    /\ cfg \in EngineConfigs
    /\ store \in Stores
    /\ EngineInit
    /\ h = HInit
    /\ query = NoQuery

ThreadStep(t) ==
    \/ NativePlay(t)
    \/ Spawn(t)
    \/ WaiterWake(t)
    \/ ConfigRead(t)
    \/ SaveWrite(t)
    \/ MarkWrite(t)
    \/ StartPlaylist(t)
    \/ NativeStopStep(t)

Next ==
    \/ setup_audio_player
    \/ stop_audio
    \/ cleanup_audio_on_quit
    \/ pause_audio
    \/ resume_audio
    \/ toggle_pause
    \/ seek_to_position
    \/ skip_to_next_track
    \/ skip_to_next_playlist
    \/ \E t \in Threads : ThreadStep(t)
    \/ \E s \in Slots : TrackEnds(s)
    \/ Midnight
    \/ HostRestart

Spec == Init /\ [][Next]_vars

----------------------------------------------------------------------------
(* The cycle calculator on its own: get_cycle_info(cfg, for_date)           *)

\* number of days after the first query date that are asked about
MaxQuerySpan == 20

FirstQueryDay == Ordinal(2023, 12, 25)

QueryDates == FirstQueryDay..(FirstQueryDay + MaxQuerySpan)

StartStrings ==
    {[kind |-> "empty", y |-> 0, m |-> 0, d |-> 0],
     [kind |-> "garbage", y |-> 0, m |-> 0, d |-> 0],
     StartOn(2023, 12, 28), StartOn(2024, 1, 3),
     StartOn(2024, 2, 30), StartOn(2023, 2, 29), StartOn(2024, 13, 1)}

CycleConfigs ==
    [start : StartStrings, study_days : 0..3, break_days : 0..2,
     override_enabled : {FALSE}, override_day : {1},
     enabled : {[p \in PIDs |-> TRUE]},
     ntracks : {[p \in PIDs |-> 1]}]

CycleInit ==
    /\ today = FirstDay
    /\ cfg \in CycleConfigs
    /\ store = FreshStore
    /\ EngineInit
    /\ h = HInit
    /\ query = NoQuery

AskCycleInfo ==
    /\ \E d \in QueryDates :
          query' = [NoQuery EXCEPT !.asked = TRUE, !.date = d,
                                   !.info = get_cycle_info(cfg, d)]
    /\ UNCHANGED <<today, cfg, store, engineVars, h>>

CycleNext == AskCycleInfo

SpecCycle == CycleInit /\ [][CycleNext]_vars

----------------------------------------------------------------------------
(* The playlist selection policy on its own                                 *)

\* the largest day asked about
MaxDay == 31

PolicyDays == 0..MaxDay

\* a manual override of any stored day, 0 and days past the clamp included
PolicyConfigs ==
    [start : {StartOn(2023, 12, 30)}, study_days : {1}, break_days : {1},
     override_enabled : BOOLEAN, override_day : 0..(MaxDay + 2),
     enabled : {[p \in PIDs |-> TRUE]},
     ntracks : {[p \in PIDs |-> 1]}]

PolicyInit ==
    /\ today = FirstDay
    /\ cfg \in PolicyConfigs
    /\ store = FreshStore
    /\ EngineInit
    /\ h = HInit
    /\ query = NoQuery

\* get_playlists_for_day(day)
AskPlaylists ==
    /\ \E day \in PolicyDays :
          query' = [NoQuery EXCEPT !.asked = TRUE, !.day = day,
                                   !.lists = get_playlists_for_day(day)]
    /\ UNCHANGED <<today, cfg, store, engineVars, h>>

\* get_playlists_for_day(get_effective_day(cfg)) under a manual override
AskOverridden ==
    /\ cfg.override_enabled
    /\ query' = [NoQuery EXCEPT
                    !.asked = TRUE, !.date = today,
                    !.day = get_effective_day(cfg, today),
                    !.lists = get_playlists_for_day(get_effective_day(cfg, today))]
    /\ UNCHANGED <<today, cfg, store, engineVars, h>>

PolicyNext == AskPlaylists \/ AskOverridden

SpecPolicy == PolicyInit /\ [][PolicyNext]_vars

----------------------------------------------------------------------------
(* Undisturbed playback: the host calls setup_audio_player while no engine  *)
(* thread exists, and tracks play to their end.                             *)

\* unset or set start date, the cycle day or an overridden day 2 or 3
PlayConfigs ==
    [start : {[kind |-> "empty", y |-> 0, m |-> 0, d |-> 0],
              StartOn(2023, 12, 30)},
     study_days : {1}, break_days : {1},
     override_enabled : BOOLEAN, override_day : {2, 3},
     enabled : {[p \in PIDs |-> TRUE]},
     ntracks : {(1 :> 1 @@ 2 :> 2 @@ 3 :> 1), (1 :> 2 @@ 2 :> 2 @@ 3 :> 1)}]

\* what earlier sessions left in the store: nothing, or a position inside
\* playlists 1 and 2
PlayStores == {FreshStore, [FreshStore EXCEPT !.pos = (1 :> 1 @@ 2 :> 1 @@ 3 :> 0)]}

PlayInit ==
    /\ today = FirstDay
    /\ cfg \in PlayConfigs
    /\ store \in PlayStores
    /\ EngineInit
    /\ h = HInit
    /\ query = NoQuery

NoEngineThread == \A t \in Threads : thr[t].pc = "idle"

SetupAtRest == NoEngineThread /\ setup_audio_player

PlayNext ==
    \/ SetupAtRest
    \/ \E t \in Threads : NativePlay(t)
    \/ \E t \in Threads : Spawn(t)
    \/ \E t \in Threads : WaiterWake(t)
    \/ \E t \in Threads : ConfigRead(t)
    \/ \E t \in Threads : SaveWrite(t)
    \/ \E t \in Threads : MarkWrite(t)
    \/ \E t \in Threads : StartPlaylist(t)
    \/ \E s \in Slots : TrackEnds(s)
    \/ Midnight

SpecPlay == PlayInit /\ [][PlayNext]_vars

\* the same with the two skips the host may call while a playlist plays
SkipNext ==
    \/ PlayNext
    \/ skip_to_next_track
    \/ skip_to_next_playlist

\* study day 1 with two tracks in playlist 2 and two in the looping playlist 1
SkipInit ==
    /\ PlayInit
    /\ cfg.start = StartOn(2023, 12, 30) /\ ~cfg.override_enabled
    /\ cfg.ntracks[1] = 2
    /\ store = FreshStore

SpecSkip == SkipInit /\ [][SkipNext]_vars

----------------------------------------------------------------------------
(* Undisturbed playback with trouble around it: playlists disabled or       *)
(* without tracks, files removed after setup_audio_player listed them.      *)

\* the tracks of a playlist the configurations of this section give up to
\* two of
TrackSet(p) == {[pid |-> p, idx |-> i] : i \in 0..1}

\* a folder of two tracks listed out of order, a single track, a folder
\* without audio files, a file that is no audio file, a path that does
\* not exist and a blank path
TwoTracks ==
    [NoSource EXCEPT !.kind = "dir", !.path = "music", !.listable = TRUE,
        !.entries = << Str(<<"t", "r", "a", "c", "k", "2", ".", "m", "p", "3">>),
                       Str(<<"t", "r", "a", "c", "k", ".", "t", "x", "t">>),
                       Str(<<"t", "r", "a", "c", "k", "1", ".", "m", "p", "3">>) >>]
OneTrack ==
    [NoSource EXCEPT !.kind = "file", !.path = "music",
        !.name = Str(<<"t", "r", "a", "c", "k", "1", ".", "m", "p", "3">>)]
NoAudioFolder ==
    [NoSource EXCEPT !.kind = "dir", !.path = "music", !.listable = TRUE,
        !.entries = << Str(<<"t", "r", "a", "c", "k", ".", "t", "x", "t">>) >>]
NoAudioFile ==
    [NoSource EXCEPT !.kind = "file", !.path = "music",
        !.name = Str(<<"t", "r", "a", "c", "k", ".", "t", "x", "t">>)]
NoSuchPath == [NoSource EXCEPT !.kind = "missing", !.path = "music"]

TroubleConfigs ==
    [start : {StartOn(2023, 12, 30)},
     study_days : {1}, break_days : {1},
     override_enabled : BOOLEAN, override_day : {3},
     enabled : [PIDs -> BOOLEAN],
     source : {(1 :> s1 @@ 2 :> s2 @@ 3 :> OneTrack) :
                  s1 \in {TwoTracks, OneTrack, NoAudioFolder, NoAudioFile,
                          NoSuchPath, NoSource},
                  s2 \in {TwoTracks, NoAudioFile, NoSource}},
     missing : {{}, {[pid |-> 1, idx |-> 1]}, {[pid |-> 1, idx |-> 0]},
                {[pid |-> 2, idx |-> 1]}, TrackSet(2)}]

TroubleInit ==
    /\ today = FirstDay
    /\ cfg \in TroubleConfigs
    /\ store = FreshStore
    /\ EngineInit
    /\ h = HInit
    /\ query = NoQuery

SpecTrouble == TroubleInit /\ [][PlayNext]_vars

----------------------------------------------------------------------------
(* Undisturbed playback in which every thread goes on running and every     *)
(* player process exits in the end.                                         *)

ProgressConfigs ==
    [start : {StartOn(2023, 12, 30)},
     study_days : {1}, break_days : {1},
     override_enabled : BOOLEAN, override_day : {3},
     enabled : [PIDs -> BOOLEAN],
     source : {(1 :> s1 @@ 2 :> s2 @@ 3 :> OneTrack) :
                  s1 \in {TwoTracks, OneTrack, NoSource},
                  s2 \in {TwoTracks, NoSource}},
     missing : {{}, {[pid |-> 1, idx |-> 1]}, TrackSet(2)}]

\* what earlier sessions left in the store: nothing, playlist 2 completed
\* today, or positions at the end of playlists 1 and 2
ProgressStores ==
    {FreshStore, [FreshStore EXCEPT !.done[2] = FirstDay],
     [FreshStore EXCEPT !.pos = (1 :> 2 @@ 2 :> 2 @@ 3 :> 0)]}

ProgressInit ==
    /\ today = FirstDay
    /\ cfg \in ProgressConfigs
    /\ store \in ProgressStores
    /\ EngineInit
    /\ h = HInit
    /\ query = NoQuery

\* a step of an engine thread or the exit of a player process
PlayStep ==
    \/ \E t \in Threads : ThreadStep(t)
    \/ \E s \in Slots : TrackEnds(s)

SpecProgress == ProgressInit /\ [][PlayNext]_vars /\ WF_vars(PlayStep)

\* the same on a day without override and with a fresh store, where the
\* add-on manager refuses no write, the writes of track positions, the
\* writes of completed dates, or both
FailConfigs ==
    {c @@ [failing |-> f] :
        c \in {d \in ProgressConfigs : ~d.override_enabled},
        f \in SUBSET {"save", "mark"}}

FailInit ==
    /\ today = FirstDay
    /\ cfg \in FailConfigs
    /\ store = FreshStore
    /\ EngineInit
    /\ h = HInit
    /\ query = NoQuery

SpecFail == FailInit /\ [][PlayNext]_vars /\ WF_vars(PlayStep)

----------------------------------------------------------------------------
(* The track source resolver on its own: _expand_source(path)               *)

\* the largest number of entries of a folder
MaxEntries == 4

\* the file names found in folders
FileNames ==
    {Str(<<"t", "r", "a", "c", "k", "1", ".", "m", "p", "3">>),
     Str(<<"t", "r", "a", "c", "k", "2", ".", "m", "p", "3">>),
     Str(<<"t", "r", "a", "c", "k", "1", "0", ".", "m", "p", "3">>),
     Str(<<"T", "R", "A", "C", "K", "9", ".", "M", "P", "3">>),
     Str(<<"t", "r", "a", "c", "k", "0", "2", ".", "w", "a", "v">>),
     Str(<<"t", "r", "a", "c", "k", ".", "t", "x", "t">>),
     Str(<<"t", "r", "a", "c", "k", "3">>),
     Str(<<".", "m", "p", "3">>)}

\* what os.listdir may return: distinct names, in any order
Listings ==
    UNION {{l \in [1..n -> FileNames] : \A i, j \in 1..n : l[i] = l[j] => i = j} :
           n \in 0..MaxEntries}

Sources ==
    {NoSource, [NoSource EXCEPT !.kind = "missing", !.path = "music"]}
    \cup {[NoSource EXCEPT !.kind = "file", !.path = "music", !.name = f] :
              f \in FileNames}
    \cup {[NoSource EXCEPT !.kind = "dir", !.path = "music", !.entries = l,
                           !.listable = ok] : l \in Listings, ok \in BOOLEAN}

SourceInit ==
    /\ today = FirstDay
    /\ cfg \in PolicyConfigs /\ ~cfg.override_enabled /\ cfg.override_day = 0
    /\ store = FreshStore
    /\ EngineInit
    /\ h = HInit
    /\ query \in {[NoQuery EXCEPT !.src = s] : s \in Sources}

\* _expand_source(path)
AskExpandSource ==
    /\ ~query.asked
    /\ query' = [query EXCEPT !.asked = TRUE, !.files = _expand_source(query.src)]
    /\ UNCHANGED <<today, cfg, store, engineVars, h>>

SourceNext == AskExpandSource

SpecSource == SourceInit /\ [][SourceNext]_vars

----------------------------------------------------------------------------
(* The volume on its own: setup_audio_player takes it from the config, the  *)
(* start of a track hands it to the player.  query.volume is _audio_volume, *)
(* query.vol the argument of afplay -v in hundredths.                       *)

\* how far outside 0..100 the configured volumes go
VolumeMargin == 10

Volumes == (0 - VolumeMargin)..(100 + VolumeMargin)

\* the config without the key audio_volume and with each volume
VolumeConfigs ==
    {c \in EngineConfigs : c.start = StartOn(2023, 12, 30)}
    \cup {c @@ [audio_volume |-> v] :
             c \in {d \in EngineConfigs : d.start = StartOn(2023, 12, 30)},
             v \in Volumes}

VolumeInit ==
    /\ today = FirstDay
    /\ cfg \in VolumeConfigs
    /\ store = FreshStore
    /\ EngineInit
    /\ h = HInit
    /\ query = NoQuery

\* int(cfg.get("audio_volume", 50) or 50)
AudioVolume(c) ==
    IF "audio_volume" \in DOMAIN c THEN IntOr(c.audio_volume, DefaultVolume)
    ELSE DefaultVolume

\* max(0.0, min(1.0, _audio_volume / 100.0)), in hundredths
PlayerVolume(v) == Clamp(0, 100, v)

\* setup_audio_player: _audio_volume = ...
SetVolume ==
    /\ query' = [query EXCEPT !.asked = TRUE, !.volume = AudioVolume(cfg)]
    /\ UNCHANGED <<today, cfg, store, engineVars, h>>

\* _native_play_current_track: vol = ..., Popen(["afplay", "-v", str(vol), path])
StartPlayer ==
    /\ query.asked
    /\ query' = [query EXCEPT !.vol = PlayerVolume(query.volume)]
    /\ UNCHANGED <<today, cfg, store, engineVars, h>>

VolumeNext == SetVolume \/ StartPlayer

SpecVolume == VolumeInit /\ [][VolumeNext]_vars

----------------------------------------------------------------------------
(* Properties                                                               *)

\* C1: at most one player process started by the engine is alive at any
\* instant
C1_AtMostOneProcessAlive == Cardinality(alive) <= 1

\* C2: once stop_audio or cleanup_audio_on_quit has returned and until the
\* next call, no player process is alive
C2_StoppedStaysStopped ==
    (h.last \in {"stop", "quit"} /\ thr[Main].pc = "idle") =>
        alive = {}

\* C3: after pause_audio on a playing track and until the next call, no
\* player process is alive and the playlist id and the track index are those
\* of the pause
C3_PauseHolds ==
    (h.last = "pause" /\ h.quiet) =>
        /\ alive = {}
        /\ CurrentTrack = h.at

\* C4: the track resume_audio is about to start is the track that was playing
\* when pause_audio was called, and the paused flag is false
C4_ResumeSameTrack ==
    (h.last = "resume_p" /\ h.quiet /\ thr[Main].pc = "spawn") =>
        /\ thr[Main].tk = h.at
        /\ ~trackPaused

\* the track skip_to_next_track moves to from the track in the history
SkipTarget ==
    [pid |-> h.at.pid,
     idx |-> SkipIndex(h.at.idx, Tracks(h.at.pid), Loops(h.at.pid))]

\* C5: while the process that skip_to_next_track started plays, the current
\* track is the one after the skipped track (the first after a wrap) and that
\* process is the only one alive
C5_SkipAdvancesOnce ==
    (/\ h.last = "skip_track" /\ h.quiet /\ thr[Main].pc = "idle"
     /\ nativeProcess \in alive
     /\ ptrack[nativeProcess] = SkipTarget) =>
        /\ CurrentTrack = SkipTarget
        /\ alive = {nativeProcess}

\* C6: a setup_audio_player call made after a non-looping playlist was marked
\* completed today starts no track of that playlist and does not mark it again
C6_CompletedIsSkipped ==
    (thr[Main].op = "setup" /\ h.last \in {"setup", "setup_q"}) =>
        /\ thr[Main].pc = "spawn" => thr[Main].tk.pid \notin h.skipd
        /\ thr[Main].pc \in {"mark_rd", "mark_wr"} => thr[Main].a \notin h.skipd

\* C7: the first setup_audio_player after a restart, when it starts the
\* playlist that cleanup_audio_on_quit found playing or paused on track k,
\* starts it at track k
C7_ResumeAfterRestart ==
    (/\ h.last = "setup_q" /\ thr[Main].op = "setup"
     /\ thr[Main].pc = "spawn" /\ thr[Main].tk.pid = h.at.pid) =>
        thr[Main].tk.idx = h.at.idx

\* C8: after setup_audio_player on a break day or before the cycle start, and
\* until the next setup, the playback queue is empty and no process is alive
C8_BreakDaySilent ==
    (h.brk /\ thr[Main].pc = "idle") =>
        /\ playbackQueue = <<>>
        /\ alive = {}

\* no process is alive after a break-day setup, whatever the queue holds
BreakDayNoProcess == h.brk => alive = {}

\* C11: with no start date configured, no override and playlist 1 enabled
\* and holding tracks, the engine is playing once setup_audio_player returned
C11_UnsetStartDoesNotGate ==
    (/\ h.last = "setup" /\ thr[Main].pc = "idle"
     /\ cfg.start.kind = "empty" /\ ~cfg.override_enabled
     /\ cfg.enabled[1] /\ cfg.ntracks[1] > 0) =>
        nativePlaying

\* the playlist ids of the list a policy query returned
ListedIds == {query.lists[k][1] : k \in 1..Len(query.lists)}

C13_DocumentedSchedule ==
    query.day \in 1..31 =>
        /\ 1 \in ListedIds
        /\ 2 \in ListedIds <=> query.day \in {1, 5, 9, 13, 17, 21, 25, 29}
        /\ 3 \in ListedIds <=> query.day \in {3, 7, 11, 15, 19, 23, 27, 31}

\* C14: the queue holds the non-looping playlists ahead of the looping one,
\* and from the start of a track of the looping playlist until the next
\* setup_audio_player the queue index does not decrease and no track of a
\* non-looping playlist is started
C14_LoopingPlaylistLast ==
    [][(h.looped /\ h'.looped) =>
          /\ \A i, j \in 1..Len(playbackQueue') :
                (i < j /\ playbackQueue'[i][2]) => playbackQueue'[j][2]
          /\ queueIndex' >= queueIndex
          /\ \A t \in Threads :
                thr'[t].pc = "spawn" => playlistLoops'[thr'[t].tk.pid]]_vars

\* C15: the write of _mark_playlist_completed_today(p) stores today's date
\* for p and index 0, and a completed date equal to today is still there
\* after every step that does not pass midnight
C15_CompletedMarkerKept ==
    [][/\ \A t \in Threads :
            (thr[t].pc = "mark_wr" /\ thr'[t].pc # "mark_wr") =>
                /\ store'.done[thr[t].a] = today
                /\ store'.pos[thr[t].a] = 0
       /\ \A p \in PIDs :
            (store.done[p] = today /\ today' = today) =>
                store'.done[p] = today]_vars

\* C16: a save or a completed-mark changes the keys of its own playlist only
\* (the track index; for a mark the completed date too) and leaves every
\* other stored key at the value last written to it
C16_NoLostUpdate ==
    [][\A t \in Threads :
          (thr[t].pc \in {"save_wr", "mark_wr"} /\ thr'[t] # thr[t]) =>
              /\ \A p \in PIDs \ {thr[t].a} :
                    /\ store'.pos[p] = store.pos[p]
                    /\ store'.done[p] = store.done[p]
              /\ thr[t].pc = "save_wr" =>
                    store'.done[thr[t].a] = store.done[thr[t].a]]_vars

\* the part at place k of the split of a file name, as the natural order
\* reads it: the number a digit run writes, the lower-case text of any other
RunValue(parts, k) ==
    IF IsDigitRun(parts[k]) THEN <<"number", IntOf(parts[k])>>
    ELSE <<"text", Lower(parts[k])>>

\* file name a comes before file name b in the natural order: at the first
\* run where they differ a has the smaller number or the text that is first
\* without regard to case, or a has no run left there
NaturalBefore(a, b) ==
    LET pa == SplitDigits(a)
        pb == SplitDigits(b)
        Same(k) == RunValue(pa, k) = RunValue(pb, k)
    IN  \/ \E k \in DOMAIN pa \cap DOMAIN pb :
              /\ \A j \in 1..(k - 1) : Same(j)
              /\ ~Same(k)
              /\ IF IsDigitRun(pa[k]) /\ IsDigitRun(pb[k])
                 THEN IntOf(pa[k]) < IntOf(pb[k])
                 ELSE StrLess(Lower(pa[k]), Lower(pb[k]))
        \/ /\ Len(pa) < Len(pb)
           /\ \A j \in DOMAIN pa : Same(j)

TrackFile(digits) == Str(<<"t", "r", "a", "c", "k">> \o digits \o <<".", "m", "p", "3">>)

\* C17: _expand_source on a folder returns exactly the entries of the listing
\* that have a supported audio extension, each once, and no file comes after
\* a file that follows it in the natural order of the file names (digit runs
\* as integers, text runs without regard to case); track1.mp3, track2.mp3 and
\* track10.mp3 come out in that order whatever the order of the listing.
C17_FolderInNaturalOrder ==
    (query.asked /\ query.src.kind = "dir" /\ query.src.listable) =>
        LET out   == query.files
            ins   == query.src.entries
            audio == {ins[i] : i \in {k \in DOMAIN ins : HasAudioExt(ins[k])}}
            Places(f) == {i \in DOMAIN out : out[i] = Join(query.src.path, f)}
            Ahead(f, g) == \A i \in Places(f), j \in Places(g) : i < j
        IN  /\ {out[i] : i \in DOMAIN out} = {Join(query.src.path, f) : f \in audio}
            /\ Len(out) = Cardinality(audio)
            /\ \A i, j \in DOMAIN out :
                  i < j => ~NaturalBefore(Basename(out[j]), Basename(out[i]))
            /\ Ahead(TrackFile(<<"1">>), TrackFile(<<"2">>))
            /\ Ahead(TrackFile(<<"2">>), TrackFile(<<"1", "0">>))
            /\ Ahead(TrackFile(<<"1">>), TrackFile(<<"1", "0">>))
            /\ Join(query.src.path, Str(<<"T", "R", "A", "C", "K", "9", ".", "M", "P", "3">>))
                  \in {out[i] : i \in DOMAIN out}
               <=> Str(<<"T", "R", "A", "C", "K", "9", ".", "M", "P", "3">>)
                      \in {ins[i] : i \in DOMAIN ins}

\* the folder was listed as track10.mp3, track2.mp3, track1.mp3 and a file
\* without audio extension, and the three tracks came out as 1, 2, 10
C17_Witness ==
    /\ query.asked /\ query.src.kind = "dir" /\ query.src.listable
    /\ query.src.entries =
          << TrackFile(<<"1", "0">>), Str(<<"t", "r", "a", "c", "k", ".", "t", "x", "t">>),
             TrackFile(<<"2">>), TrackFile(<<"1">>) >>
    /\ query.files =
          << Join("music", TrackFile(<<"1">>)), Join("music", TrackFile(<<"2">>)),
             Join("music", TrackFile(<<"1", "0">>)) >>

\* a step in which a thread starts a player process
SpawnStep == \E t \in Threads : thr[t].pc = "spawn" /\ thr'[t].pc # "spawn"

\* the queue of study day 1 with two tracks in playlist 2 and one in playlist 1
StudyDayOne ==
    /\ playbackQueue = << <<2, FALSE>>, <<1, TRUE>> >>
    /\ playlists[2] = 2 /\ playlists[1] = 1

\* the track started after `last` on study day 1, playlist 2 resuming at pos2
AfterOnDayOne(last, pos2) ==
    IF last = NoTrack THEN [pid |-> 2, idx |-> pos2]
    ELSE IF last = [pid |-> 2, idx |-> 0] THEN [pid |-> 2, idx |-> 1]
    ELSE [pid |-> 1, idx |-> 0]

\* C18: when the last track of a non-looping playlist has completed naturally
\* the waiter goes to mark the playlist with the queue index unchanged; the
\* write of the mark stores today and index 0, and with it the queue index
\* grows by one and the next queue entry is the one started.  The queue
\* index never moves past a non-looping entry that is not marked today.  On
\* study day 1 (playlist 2 of 2 tracks, playlist 1 of 1 track) the processes
\* started are playlist 2 track 0, playlist 2 track 1, then playlist 1
\* track 0 again and again.
C18_MarkedThenAdvanced ==
    [][/\ \A t \in Slots :
            /\ ( /\ thr[t].pc = "save_wr" /\ thr'[t] # thr[t]
                 /\ thr[t].ret = "waiter"
                 /\ currentTrackIndex >= Tracks(currentPlaylistId)
                 /\ ~Loops(currentPlaylistId) )
               => /\ thr'[t].pc = "mark_rd" /\ thr'[t].a = currentPlaylistId
                  /\ queueIndex' = queueIndex
            /\ (thr[t].pc = "mark_wr" /\ thr'[t] # thr[t])
               => /\ store'.done[thr[t].a] = today
                  /\ store'.pos[thr[t].a] = 0
                  /\ queueIndex' = queueIndex + 1
                  /\ queueIndex' < Len(playbackQueue)
                     => /\ thr'[t].pc = "sp"
                        /\ <<thr'[t].a, thr'[t].lp>> = playbackQueue[queueIndex' + 1]
       /\ (queueIndex' # queueIndex /\ h'.calls = h.calls)
          => /\ queueIndex' = queueIndex + 1
             /\ queueIndex < Len(playbackQueue)
             /\ ~playbackQueue[queueIndex + 1][2]
                => /\ store'.done[playbackQueue[queueIndex + 1][1]] = today
                   /\ store'.pos[playbackQueue[queueIndex + 1][1]] = 0
       /\ (SpawnStep /\ StudyDayOne /\ (h.spawned = NoTrack => store.pos[2] = 0))
          => h'.spawned = AfterOnDayOne(h.spawned, 0)
      ]_vars

\* study day 1: playlist 2 is marked, the queue index is 1, playlist 1 track 0
\* was started and is about to be started again
C18_Witness ==
    /\ StudyDayOne
    /\ store.done[2] = today /\ store.pos[2] = 0
    /\ queueIndex = 1
    /\ h.spawned = [pid |-> 1, idx |-> 0]
    /\ \E t \in Slots : thr[t].pc = "spawn" /\ thr[t].tk = [pid |-> 1, idx |-> 0]

\* C19: when the process of track i ends naturally and i + 1 is less than
\* the number of tracks, the waiter sets the current index to i + 1, then
\* persists i + 1 with time position 0 for the current playlist, then
\* starts track i + 1 of the same playlist; none of these steps changes the
\* queue index, the current playlist or a completed date, and the track
\* started after track i is track i + 1.
C19_NextTrackOfPlaylist ==
    [][\A t \in Slots :
          /\ ( /\ thr[t].pc = "w_wait" /\ thr'[t] # thr[t] /\ nativePlaying
               /\ currentTrackIndex + 1 < Tracks(currentPlaylistId) )
             => /\ currentTrackIndex' = currentTrackIndex + 1
                /\ thr'[t].pc = "save_rd"
                /\ thr'[t].a = currentPlaylistId
                /\ thr'[t].i = currentTrackIndex + 1
                /\ UNCHANGED <<queueIndex, currentPlaylistId, store>>
          /\ ( /\ thr[t].op = "waiter" /\ thr'[t] # thr[t]
               /\ thr[t].pc \in {"save_rd", "save_wr", "np", "spawn"}
               /\ currentTrackIndex < Tracks(currentPlaylistId) )
             => /\ UNCHANGED <<queueIndex, currentPlaylistId, currentTrackIndex>>
                /\ store'.done = store.done
                /\ thr[t].pc = "save_wr"
                   => /\ store'.pos = [store.pos EXCEPT
                                          ![currentPlaylistId] = currentTrackIndex]
                      /\ store'.time[currentPlaylistId] = 0
                      /\ thr'[t].pc = "np"
                /\ thr[t].pc = "np"
                   => thr'[t].pc = "spawn" /\ thr'[t].tk = CurrentTrack
                /\ thr[t].pc = "spawn"
                   => /\ nativeProcess' \in alive'
                      /\ ptrack'[nativeProcess'] = CurrentTrack
                      /\ h'.spawned = CurrentTrack
                      /\ ( /\ h.spawned # NoTrack
                           /\ h.spawned.idx + 1 < Tracks(h.spawned.pid) )
                         => h'.spawned = [h.spawned EXCEPT !.idx = @ + 1]
      ]_vars

\* track 0 of playlist 2 has ended: the index is 1, 1 is persisted with time
\* position 0, and the waiter is about to start track 1
C19_Witness ==
    /\ h.spawned = [pid |-> 2, idx |-> 0]
    /\ currentPlaylistId = 2 /\ currentTrackIndex = 1
    /\ store.pos[2] = 1 /\ store.time[2] = 0 /\ store.done[2] = NoDate
    /\ queueIndex = 0
    /\ \E t \in Slots :
          /\ thr[t].op = "waiter" /\ thr[t].pc = "spawn"
          /\ thr[t].tk = [pid |-> 2, idx |-> 1]

\* the host process ended and started again
RestartStep == h'.calls = h.calls /\ h'.last # h.last

\* a step of skip_to_next_playlist, stop_audio or setup_audio_player: the
\* call itself or the code the main thread runs for it
LeavingStep ==
    \/ h'.calls # h.calls /\ h'.last \in {"skip_playlist", "stop", "setup", "setup_q"}
    \/ h.last \in {"skip_playlist", "setup", "setup_q"} /\ thr'[Main] # thr[Main]

\* C20: when the index of a looping current playlist has reached the number
\* of its tracks, by the natural end of the last track or by
\* skip_to_next_track on it, the index is set to 0, 0 is persisted and the
\* first track is started.  While the current playlist loops, no step but
\* one of skip_to_next_playlist, stop_audio or setup_audio_player (or the
\* end of the host process) changes the queue index, the current playlist
\* or the completed date of that playlist.
C20_LoopingPlaylistKept ==
    [][(currentPlaylistId # 0 /\ Loops(currentPlaylistId) /\ ~RestartStep) =>
          /\ \A t \in Slots :
                ( /\ thr[t].pc = "save_wr" /\ thr'[t] # thr[t]
                  /\ thr[t].ret = "waiter"
                  /\ currentTrackIndex >= Tracks(currentPlaylistId) )
                => /\ currentTrackIndex' = 0
                   /\ thr'[t].pc = "save_rd" /\ thr'[t].ret = "np"
                   /\ thr'[t].a = currentPlaylistId /\ thr'[t].i = 0
          /\ ( /\ h'.calls # h.calls /\ h'.last = "skip_track"
               /\ currentTrackIndex + 1 >= Tracks(currentPlaylistId) )
             => /\ currentTrackIndex' = 0
                /\ thr'[Main].pc = "save_rd" /\ thr'[Main].ret = "np"
                /\ thr'[Main].a = currentPlaylistId /\ thr'[Main].i = 0
          /\ \A t \in Threads :
                ( /\ thr[t].pc = "save_wr" /\ thr'[t] # thr[t]
                  /\ thr[t].ret = "np" /\ thr[t].i = 0 )
                => /\ store'.pos[thr[t].a] = 0
                   /\ thr'[t].pc = "np"
          /\ \A t \in Threads :
                (thr[t].pc = "np" /\ thr'[t] # thr[t] /\ currentTrackIndex = 0)
                => /\ thr'[t].pc = "spawn"
                   /\ thr'[t].tk = [pid |-> currentPlaylistId, idx |-> 0]
          /\ ( \/ queueIndex' # queueIndex
               \/ currentPlaylistId' # currentPlaylistId
               \/ store'.done[currentPlaylistId] # store.done[currentPlaylistId] )
             => LeavingStep
      ]_vars

\* C21: a thread that finds the file of the current track missing starts no
\* process for it: it adds one to the index and goes to persist it for the
\* same playlist, then tries again.  When the index of a looping playlist is
\* past the end and a file of the playlist exists, the thread sets the
\* index to 0 and keeps the queue index and the current playlist.
C21_MissingFileSkipped ==
    [][\A t \in Threads :
          (thr[t].pc = "np" /\ thr'[t] # thr[t] /\ currentPlaylistId # 0) =>
             /\ ( /\ currentTrackIndex < Tracks(currentPlaylistId)
                  /\ ~FileExists(cfg, CurrentTrack) )
                => /\ alive' \subseteq alive
                   /\ currentTrackIndex' = currentTrackIndex + 1
                   /\ thr'[t].pc = "save_rd"
                   /\ thr'[t].a = currentPlaylistId
                   /\ thr'[t].i = currentTrackIndex + 1
                   /\ thr'[t].ret = "np"
                   /\ UNCHANGED <<currentPlaylistId, queueIndex>>
             /\ ( /\ currentTrackIndex >= Tracks(currentPlaylistId)
                  /\ Loops(currentPlaylistId)
                  /\ \E i \in 0..(Tracks(currentPlaylistId) - 1) :
                        FileExists(cfg, [pid |-> currentPlaylistId, idx |-> i]) )
                => /\ currentTrackIndex' = 0
                   /\ UNCHANGED <<currentPlaylistId, queueIndex>>
                   /\ nativePlaying'
      ]_vars

\* the host has just called `op`
Called(op) == h'.calls # h.calls /\ h'.last = op

\* C22: a skip is made only while the playing flag is set.
\* skip_to_next_track inside a non-looping playlist adds one to the index and
\* persists it without setting the completed date.  skip_to_next_track on
\* the last track of a non-looping playlist and skip_to_next_playlist on a
\* non-looping playlist go to mark it with the queue index unchanged; the
\* write of the mark stores today and index 0, adds one to the queue index
\* and starts the next queue entry, if there is one.  A skip of a looping
\* playlist marks nothing: skip_to_next_track wraps to the first track and
\* skip_to_next_playlist adds one to the queue index at once.
C22_SkipSemantics ==
    [][LET p == currentPlaylistId
           n == Tracks(currentPlaylistId)
           m == thr[Main]
           m2 == thr'[Main]
       IN
       /\ (Called("skip_track") \/ Called("skip_playlist")) => nativePlaying
       /\ Called("skip_track") => p # 0
       /\ (Called("skip_track") /\ ~Loops(p) /\ currentTrackIndex + 1 < n)
          => /\ currentTrackIndex' = currentTrackIndex + 1
             /\ m2.pc = "save_rd" /\ m2.a = p /\ m2.i = currentTrackIndex + 1
             /\ UNCHANGED <<store, queueIndex, currentPlaylistId>>
       /\ ( \/ Called("skip_track") /\ ~Loops(p) /\ currentTrackIndex + 1 >= n
            \/ Called("skip_playlist") /\ p # 0 /\ ~Loops(p) )
          => /\ m2.pc = "mark_rd" /\ m2.a = p
             /\ UNCHANGED <<store, queueIndex, currentPlaylistId>>
       /\ (Called("skip_track") /\ Loops(p))
          => /\ currentTrackIndex' = (IF currentTrackIndex + 1 >= n THEN 0
                                      ELSE currentTrackIndex + 1)
             /\ m2.pc = "save_rd" /\ m2.a = p /\ m2.i = currentTrackIndex'
             /\ UNCHANGED <<store, queueIndex, currentPlaylistId>>
       /\ (Called("skip_playlist") /\ Loops(p))
          => /\ queueIndex' = queueIndex + 1
             /\ m2.pc # "mark_rd"
             /\ store' = store
       /\ (h.last = "skip_track" /\ m.pc = "save_wr" /\ m2 # m)
          => /\ store'.pos[m.a] = m.i
             /\ store'.done[m.a] = today => store.done[m.a] = today
             /\ m2.pc = "np"
       /\ (h.last \in {"skip_track", "skip_playlist"} /\ m.pc = "mark_wr" /\ m2 # m)
          => /\ ~playlistLoops[m.a]
             /\ store'.done[m.a] = today /\ store'.pos[m.a] = 0
             /\ queueIndex' = queueIndex + 1
             /\ queueIndex' < Len(playbackQueue)
                => /\ m2.pc = "sp"
                   /\ <<m2.a, m2.lp>> = playbackQueue[queueIndex' + 1]
             /\ queueIndex' >= Len(playbackQueue)
                => ~nativePlaying' /\ currentPlaylistId' = 0
      ]_vars

\* skip_to_next_track on the last track of playlist 2 has marked it and
\* moved the queue on to playlist 1
C22_Witness ==
    /\ h.last = "skip_track" /\ h.at = [pid |-> 2, idx |-> 1]
    /\ store.done[2] = today /\ store.pos[2] = 0
    /\ queueIndex = 1
    /\ thr[Main].pc = "sp" /\ thr[Main].a = 1

\* the queue of the last setup is exhausted
QueueExhausted == playbackQueue # <<>> /\ queueIndex >= Len(playbackQueue)

\* C23: the step that exhausts the queue leaves the playing flag false, the
\* current playlist id 0 and no player process alive; from then on, until
\* setup_audio_player is called again (or the host process ends), every step
\* keeps the flag false, the id 0 and no process alive.
C23_FinishedStays ==
    [][(~Called("setup") /\ ~Called("setup_q") /\ ~RestartStep /\ QueueExhausted')
          => /\ ~nativePlaying'
             /\ currentPlaylistId' = 0
             /\ alive' = {}
      ]_vars

\* a source path that gives at least one track: an audio file, or a folder
\* that can be listed and holds an entry with an audio extension
Playable(src) ==
    \/ src.kind = "file" /\ HasAudioExt(src.name)
    \/ /\ src.kind = "dir" /\ src.listable
       /\ \E i \in DOMAIN src.entries : HasAudioExt(src.entries[i])

\* the playlists setup_audio_player leaves out of the queue
LeftOut == {p \in PIDs : ~cfg.enabled[p] \/ ~Playable(cfg.source[p])}

\* C24: on a study day setup_audio_player builds the queue of the entries of
\* get_playlists_for_day(effective day) whose playlist is enabled and whose
\* source gives a track, in their order, and starts its first entry; a
\* playlist that is disabled or whose source gives no track is never the
\* current playlist, no process is started for it and it is never marked
\* completed.
C24_QueueLeavesOut ==
    [][/\ (Called("setup") /\ ~get_cycle_info(cfg, today).is_break)
          => LET day == get_playlists_for_day(get_effective_day(cfg, today))
                 kept == {i \in DOMAIN day : day[i][1] \notin LeftOut}
             IN  /\ Len(playbackQueue') = Cardinality(kept)
                 /\ \A i \in kept :
                       playbackQueue'[Cardinality({j \in kept : j <= i})] = day[i]
                 /\ kept # {}
                    => /\ queueIndex' = 0
                       /\ thr'[Main].pc = "sp"
                       /\ <<thr'[Main].a, thr'[Main].lp>> = playbackQueue'[1]
       /\ \A p \in LeftOut :
             /\ currentPlaylistId' # p
             /\ h'.spawned.pid # p
             /\ \A s \in Slots : ptrack'[s].pid # p
             /\ store'.done[p] = NoDate
             /\ p \notin h'.marked
      ]_vars

\* playlist 2 was left out of the queue of study day 1 and playlist 1 plays
C24_Witness ==
    /\ 2 \in LeftOut
    /\ playbackQueue = << <<1, TRUE>> >>
    /\ h.spawned.pid = 1
    /\ nativeProcess \in alive /\ ptrack[nativeProcess].pid = 1

\* no playback and nothing on its way: flag false, no current playlist, no
\* process, no engine thread
Finished ==
    /\ ~nativePlaying /\ currentPlaylistId = 0
    /\ alive = {} /\ NoEngineThread

\* the flag says playing but no process plays and no thread will start one
Stalled == nativePlaying /\ alive = {} /\ NoEngineThread

\* C27: with the manual override enabled the day that selects the playlists
\* is the override value kept within 1..31, never 0, whatever the cycle says
\* of the date, and setup_audio_player builds its queue from
\* get_playlists_for_day of that day (the enabled playlists with tracks, in
\* order) on every date, break days of the cycle included.
C27_OverrideOnEveryDate ==
    [][(Called("setup") /\ cfg.override_enabled)
       => /\ get_effective_day(cfg, today) \in 1..31
          /\ cfg.override_day \in 1..31
             => get_effective_day(cfg, today) = cfg.override_day
          /\ playbackQueue'
               = SelectSeq(get_playlists_for_day(get_effective_day(cfg, today)),
                           LAMBDA e : cfg.enabled[e[1]] /\ playlists'[e[1]] > 0)
      ]_vars

\* C28: for every configured study-day count S >= 1 and break-day count
\* B >= 0 the cycle get_cycle_info uses is S + B days long (its cycle_start
\* and cycle_end are S + B - 1 days apart); with B = 0 the cycle is S days
\* long and no date on or after the start is a break day.
C28_CycleLengthIsSum ==
    (query.asked /\ cfg.study_days >= 1)
    => /\ query.info.cycle_end - query.info.cycle_start + 1
            = cfg.study_days + cfg.break_days
       /\ (cfg.break_days = 0 /\ ~query.info.before_start)
          => ~query.info.is_break

\* C29: for every date D on or after the configured or implicit start, the
\* cycle day of D + 1 is (cycle day of D mod cycle length) + 1, and the cycle
\* number of D + 1 is that of D plus one when the cycle day of D + 1 is 1 and
\* equal to it otherwise; this holds across December 31 and January 1 when
\* no start date is configured.
C29_NextDayFollows ==
    (query.asked /\ ~query.info.before_start)
    => /\ get_cycle_info(cfg, query.date + 1).cycle_day
            = (query.info.cycle_day % CycleLength(cfg)) + 1
       /\ get_cycle_info(cfg, query.date + 1).cycle_number
            = query.info.cycle_number
              + (IF get_cycle_info(cfg, query.date + 1).cycle_day = 1
                 THEN 1 ELSE 0)

\* C30: for every configured audio_volume v in 0..100 the player is started
\* with volume v hundredths of full scale; a configured volume of 0 starts
\* the player with volume 0.
C30_VolumeAsConfigured ==
    ( /\ query.vol # NoVolume
      /\ "audio_volume" \in DOMAIN cfg
      /\ cfg.audio_volume \in 0..100 )
    => query.vol = cfg.audio_volume

\* a thread is at a write of the config that is refused
FailingWrite(t) ==
    \/ thr[t].pc = "save_wr" /\ "save" \in Failing(cfg)
    \/ thr[t].pc = "mark_wr" /\ "mark" \in Failing(cfg)

\* C26: a refused write of a track position or of a completed date is not
\* fatal: the store keeps what it had, no exception ends the thread (it ends
\* only when the queue is used up, in the finished state), the playing flag
\* is kept, the index in memory is the advanced one that was to be saved,
\* after a refused position write the thread goes on to play the track of
\* that index or to leave the playlist, after a refused marker write of
\* _advance_to_next_playlist the queue index moves on by one and the next
\* queue entry is started (the marker write of _start_playlist is followed
\* by _advance_to_next_playlist); and
\* from every refused write the engine gets to a started player process or
\* to the finished state.
C26_WriteFailureNotFatal ==
    /\ [][\A t \in Threads :
            (FailingWrite(t) /\ thr'[t] # thr[t])
            => /\ store' = store
               /\ thr'[t].pc = "idle"
                  => /\ queueIndex' >= Len(playbackQueue)
                     /\ ~nativePlaying' /\ currentPlaylistId' = 0
               /\ thr'[t].pc # "idle"
                  => /\ nativePlaying' = nativePlaying
                     /\ currentPlaylistId' = currentPlaylistId
               /\ thr[t].pc = "save_wr"
                  => /\ currentTrackIndex = thr[t].i
                     /\ currentTrackIndex < Tracks(currentPlaylistId)
                        => /\ thr'[t].pc = "np"
                           /\ currentTrackIndex' = currentTrackIndex
                     /\ ( /\ currentTrackIndex >= Tracks(currentPlaylistId)
                          /\ Loops(currentPlaylistId) /\ thr[t].ret = "waiter" )
                        => currentTrackIndex' = 0 /\ thr'[t].pc = "save_rd"
                     /\ ( /\ currentTrackIndex >= Tracks(currentPlaylistId)
                          /\ ~Loops(currentPlaylistId) )
                        => thr'[t].pc \in {"mark_rd", "np"}
               /\ (thr[t].pc = "mark_wr" /\ thr[t].ret # "adv")
                  => thr'[t].pc = "mark_rd" /\ thr'[t].ret = "adv"
               /\ (thr[t].pc = "mark_wr" /\ thr[t].ret = "adv")
                  => /\ queueIndex' = queueIndex + 1
                     /\ queueIndex' < Len(playbackQueue)
                        => /\ thr'[t].pc = "sp"
                           /\ <<thr'[t].a, thr'[t].lp>>
                                 = playbackQueue[queueIndex' + 1]
         ]_vars
    /\ (\E t \in Threads : FailingWrite(t)) ~> (alive # {} \/ Finished)

\* both kinds of write are refused, the store is as it was at the start, and
\* after track 0 of playlist 2 its track 1 plays
C26_Witness ==
    /\ Failing(cfg) = {"save", "mark"}
    /\ store = FreshStore
    /\ h.spawned = [pid |-> 2, idx |-> 1]
    /\ currentTrackIndex = 1
    /\ alive # {} /\ nativePlaying

\* C25: in undisturbed playback with fair threads and processes that exit,
\* once setup_audio_player has built a non-empty queue and is about to
\* start its first entry, a track of a looping playlist is started or the
\* engine finishes; the engine is never stalled; and _start_playlist starts
\* no track of an entry that is completed today or whose stored index is at
\* its end (non-looping), it goes on to the next entry, to the mark or to
\* the end.
C25_QueueProgress ==
    /\ (thr[Main].pc = "sp" /\ thr[Main].op = "setup") ~> (h.looped \/ Finished)
    /\ []~Stalled
    /\ [][\A t \in Threads :
             ( /\ thr[t].pc = "sp" /\ thr'[t] # thr[t] /\ ~thr[t].lp
               /\ \/ store.done[thr[t].a] = today
                  \/ store.pos[thr[t].a] >= Tracks(thr[t].a) )
             => /\ thr'[t].pc \in {"sp", "mark_rd", "idle"}
                /\ thr'[t].pc = "sp" => queueIndex' = queueIndex + 1
                /\ thr'[t].pc = "idle" => Finished'
                /\ currentTrackIndex' = currentTrackIndex
                /\ alive' = {}
      ]_vars

\* setup_audio_player found the only entry of the queue, playlist 2,
\* completed today and finished without starting a track
C25_Witness ==
    /\ h.last = "setup" /\ h.spawned = NoTrack
    /\ playbackQueue = << <<2, FALSE>> >>
    /\ store.done[2] = today
    /\ Finished

\* the query date lies before a start date that strptime accepted
QueryBeforeStart ==
    /\ ParseStartDate(cfg.start) # NoDate
    /\ query.date < ParseStartDate(cfg.start)

\* C9 as stated: is_break is true iff cycle_day is greater than study_days
C9_BreakIffPastStudyDays ==
    query.asked =>
        (query.info.is_break <=> query.info.cycle_day > StudyDaysOf(cfg))

\* C9 amended: is_break is true iff cycle_day is greater than study_days or
\* the date precedes the configured start (where cycle_day is 0)
C9_BreakIffPastStudyDaysOrBeforeStart ==
    query.asked =>
        /\ query.info.is_break <=>
              (query.info.cycle_day > StudyDaysOf(cfg) \/ QueryBeforeStart)
        /\ QueryBeforeStart => query.info.cycle_day = 0

C9_Witness ==
    query.asked /\ QueryBeforeStart /\ query.info.is_break

\* the reference of C10: the start date, the days elapsed, the cycle fields
RefStart ==
    IF ParseStartDate(cfg.start) # NoDate THEN ParseStartDate(cfg.start)
    ELSE CHOOSE n \in (query.date - 366)..query.date :
            \E y \in YearRange : n = Ordinal(y, 1, 1)
                                 /\ query.date < Ordinal(y + 1, 1, 1)

RefElapsed == query.date - RefStart

\* C10: for S >= 1 and B >= 1 get_cycle_info equals the reference function:
\* before the start it is a break with cycle_day 0 and study_day 0, from the
\* start on cycle_number = e div (S+B) + 1, cycle_day = e mod (S+B) + 1,
\* is_break = cycle_day > S, study_day = cycle_day or 0; a start that is
\* unset or malformed counts from January 1 of the query year
C10_CycleInfoIsReference ==
    (query.asked /\ cfg.study_days >= 1 /\ cfg.break_days >= 1) =>
        LET S == cfg.study_days
            B == cfg.break_days
            e == RefElapsed
            i == query.info
        IN  IF e < 0
            THEN i.is_break /\ i.cycle_day = 0 /\ i.study_day = 0
            ELSE /\ i.cycle_number = (e \div (S + B)) + 1
                 /\ i.cycle_day = (e % (S + B)) + 1
                 /\ i.cycle_day \in 1..(S + B)
                 /\ i.is_break = (i.cycle_day > S)
                 /\ i.study_day = (IF i.is_break THEN 0 ELSE i.cycle_day)

\* a malformed start date asked about on January 1: cycle 1, day 1, no break
C10_Witness ==
    /\ query.asked /\ cfg.study_days >= 1 /\ cfg.break_days >= 1
    /\ cfg.start.kind = "ymd" /\ ParseStartDate(cfg.start) = NoDate
    /\ RefElapsed = 0
    /\ query.date = Ordinal(2024, 1, 1)
    /\ query.info.cycle_number = 1 /\ query.info.cycle_day = 1
    /\ ~query.info.is_break /\ query.info.study_day = 1

TypeOK ==
    /\ alive \subseteq Slots
    /\ nativeProcess \in Slots \cup {NoProc}
    /\ currentPlaylistId \in 0..3
    /\ currentTrackIndex \in Nat
    /\ queueIndex \in Nat

=============================================================================
